---------------------------- MODULE Spec2Model ----------------------------
(***************************************************************************)
(* A model of scripts/codex.ts, the command-line adapter that resolves one *)
(* request from its input channels, validates it, attaches it to the      *)
(* persisted conversation thread and calls the external reasoning service. *)
(*                                                                         *)
(* Text is modelled as it is in the program: a sequence of characters      *)
(* (one-character strings), so that startsWith, join, slice, length and    *)
(* template concatenation are computed, and JSON.parse / JSON.stringify    *)
(* are a parser and a printer, not the identity.                           *)
(***************************************************************************)
EXTENDS Integers, Sequences, FiniteSets, TLC

(***************************************************************************)
(* String literals of the source.                                          *)
(***************************************************************************)
FLAG_INPUT_FILE == <<"-", "-", "i", "n", "p", "u", "t", "-", "f", "i", "l", "e">>
FLAG_PROMPT_FILE == <<"-", "-", "p", "r", "o", "m", "p", "t", "-", "f", "i", "l", "e">>
FLAG_VALIDATE == <<"-", "-", "v", "a", "l", "i", "d", "a", "t", "e">>
FLAG_PREFIX == <<"-", "-">>
ACTION_NEW == <<"n", "e", "w">>
ACTION_CONTINUE == <<"c", "o", "n", "t", "i", "n", "u", "e">>
K_action == <<"a", "c", "t", "i", "o", "n">>
K_prompt == <<"p", "r", "o", "m", "p", "t">>
K_promptFile == <<"p", "r", "o", "m", "p", "t", "F", "i", "l", "e">>
K_context == <<"c", "o", "n", "t", "e", "x", "t">>
K_topic == <<"t", "o", "p", "i", "c">>
K_workingDirectory == <<"w", "o", "r", "k", "i", "n", "g", "D", "i", "r", "e", "c", "t", "o", "r", "y">>
K_threadId == <<"t", "h", "r", "e", "a", "d", "I", "d">>
K_lastUsed == <<"l", "a", "s", "t", "U", "s", "e", "d">>
K_messageCount == <<"m", "e", "s", "s", "a", "g", "e", "C", "o", "u", "n", "t">>
K_finalResponse == <<"f", "i", "n", "a", "l", "R", "e", "s", "p", "o", "n", "s", "e">>
DEFAULT_TOPIC == <<"g", "e", "n", "e", "r", "a", "l", " ", "r", "e", "v", "i", "e", "w">>
LIT_null == <<"n", "u", "l", "l">>
LIT_true == <<"t", "r", "u", "e">>
LIT_false == <<"f", "a", "l", "s", "e">>
CONTEXT_SEP == <<"\n", "\n">>
PREVIEW_LEN == 200
TXT_undefined == <<"u", "n", "d", "e", "f", "i", "n", "e", "d">>
TXT_object == <<"[", "o", "b", "j", "e", "c", "t", " ", "O", "b", "j", "e", "c", "t", "]">>
K_skipGitRepoCheck == <<"s", "k", "i", "p", "G", "i", "t", "R", "e", "p", "o", "C", "h", "e", "c", "k">>
K_length == <<"l", "e", "n", "g", "t", "h">>
JSON_INDENT == 2

(***************************************************************************)
(* JavaScript values.  An object's properties are kept in insertion order  *)
(* as a sequence of [k, v] pairs with distinct keys; an array carries its  *)
(* items and, like any JavaScript object, named properties.                *)
(***************************************************************************)
Undefined == [t |-> "undefined"]
Null == [t |-> "null"]
Bool(b) == [t |-> "boolean", b |-> b]
Num(n) == [t |-> "number", n |-> n]
Str(s) == [t |-> "string", s |-> s]
Arr(items) == [t |-> "array", items |-> items, props |-> <<>>]
Obj(props) == [t |-> "object", props |-> props]
EmptyObject == Obj(<<>>)

\* ToBoolean: undefined, null, false, 0 and "" are falsy; everything else
\* (objects and arrays included) is truthy.
Truthy(v) ==
    CASE v.t = "undefined" -> FALSE
      [] v.t = "null" -> FALSE
      [] v.t = "boolean" -> v.b
      [] v.t = "number" -> v.n # 0
      [] v.t = "string" -> v.s # <<>>
      [] OTHER -> TRUE

\* a || b
JsOr(a, b) == IF Truthy(a) THEN a ELSE b

\* Reading or writing a property of null or undefined throws a TypeError.
IsNullish(v) == v.t \in {"null", "undefined"}

HasProps(v) == v.t \in {"object", "array"}

KeyIndex(props, k) ==
    LET hits == {i \in 1..Len(props) : props[i].k = k}
    IN  IF hits = {} THEN 0 ELSE CHOOSE i \in hits : TRUE

\* v.k for a v that is not null or undefined: an own property of an object
\* or array, undefined on a primitive (none of the keys read by the program
\* is a prototype property of String, Number or Boolean).
GetProp(v, k) ==
    IF HasProps(v) /\ KeyIndex(v.props, k) # 0
    THEN v.props[KeyIndex(v.props, k)].v
    ELSE Undefined

PutProp(props, k, val) ==
    IF KeyIndex(props, k) # 0
    THEN [props EXCEPT ![KeyIndex(props, k)] = [k |-> k, v |-> val]]
    ELSE Append(props, [k |-> k, v |-> val])

\* v.k = val in strict mode (an ES module): allowed on objects and arrays,
\* a TypeError on null, undefined and on primitives.
CanSetProp(v) == HasProps(v)
SetProp(v, k, val) == [v EXCEPT !.props = PutProp(v.props, k, val)]

\* x.length as read at codex.ts:169.
LengthOf(v) ==
    CASE v.t = "string" -> Num(Len(v.s))
      [] v.t = "array" -> Num(Len(v.items))
      [] OTHER -> GetProp(v, K_length)

IsPrefix(pre, s) == Len(pre) <= Len(s) /\ SubSeq(s, 1, Len(pre)) = pre

\* s.slice(0, n)
Slice0(s, n) == SubSeq(s, 1, IF Len(s) < n THEN Len(s) ELSE n)

RECURSIVE Join(_, _)
Join(strs, sep) ==
    IF strs = <<>> THEN <<>>
    ELSE IF Len(strs) = 1 THEN strs[1]
    ELSE strs[1] \o sep \o Join(Tail(strs), sep)

(***************************************************************************)
(* JSON.parse on the JSON subset the model's texts are written in:         *)
(* whitespace, null/true/false, non-negative integers, strings without     *)
(* escapes, arrays and objects.  A parse step returns [ok, v, i]: success, *)
(* the value, and the index after it.                                      *)
(***************************************************************************)
Whitespace == {" ", "\n", "\t", "\r"}
Digits == <<"0", "1", "2", "3", "4", "5", "6", "7", "8", "9">>
IsDigit(c) == \E d \in 1..10 : Digits[d] = c
DigitValue(c) == (CHOOSE d \in 1..10 : Digits[d] = c) - 1

ParseFail(i) == [ok |-> FALSE, v |-> Undefined, i |-> i]
ParseOk(v, i) == [ok |-> TRUE, v |-> v, i |-> i]

RECURSIVE SkipWs(_, _)
SkipWs(s, i) ==
    IF i <= Len(s) /\ s[i] \in Whitespace THEN SkipWs(s, i + 1) ELSE i

MatchesAt(s, i, word) ==
    i + Len(word) - 1 <= Len(s) /\ SubSeq(s, i, i + Len(word) - 1) = word

RECURSIVE StringEnd(_, _)
\* the index of the closing quote of the string whose body starts at i, or 0
StringEnd(s, i) ==
    IF i > Len(s) THEN 0
    ELSE IF s[i] = "\"" THEN i
    ELSE IF s[i] \in {"\n", "\t", "\r", "\\"} THEN 0
    ELSE StringEnd(s, i + 1)

ParseString(s, i) ==
    LET e == StringEnd(s, i + 1)
    IN  IF e = 0 THEN ParseFail(i) ELSE ParseOk(Str(SubSeq(s, i + 1, e - 1)), e + 1)

RECURSIVE NumberEnd(_, _)
NumberEnd(s, i) == IF i <= Len(s) /\ IsDigit(s[i]) THEN NumberEnd(s, i + 1) ELSE i

RECURSIVE DigitsValue(_)
DigitsValue(ds) ==
    IF ds = <<>> THEN 0
    ELSE 10 * DigitsValue(SubSeq(ds, 1, Len(ds) - 1)) + DigitValue(ds[Len(ds)])

ParseNumber(s, i) ==
    LET e == NumberEnd(s, i)
    IN  IF s[i] = "0" /\ e > i + 1 THEN ParseFail(i)
        ELSE ParseOk(Num(DigitsValue(SubSeq(s, i, e - 1))), e)

RECURSIVE ParseValue(_, _)
RECURSIVE ParseElements(_, _, _)
RECURSIVE ParseMembers(_, _, _)

\* after "[" or ",": one element, then "," or "]"
ParseElements(s, i, items) ==
    LET r == ParseValue(s, SkipWs(s, i))
        j == SkipWs(s, r.i)
    IN  IF ~r.ok \/ j > Len(s) THEN ParseFail(i)
        ELSE IF s[j] = "," THEN ParseElements(s, j + 1, Append(items, r.v))
        ELSE IF s[j] = "]" THEN ParseOk(Arr(Append(items, r.v)), j + 1)
        ELSE ParseFail(j)

\* after "{" or ",": one "key": value member, then "," or "}"
ParseMembers(s, i, props) ==
    LET k == SkipWs(s, i)
        key == IF k <= Len(s) /\ s[k] = "\"" THEN ParseString(s, k) ELSE ParseFail(k)
        c == SkipWs(s, key.i)
        r == IF key.ok /\ c <= Len(s) /\ s[c] = ":"
             THEN ParseValue(s, SkipWs(s, c + 1)) ELSE ParseFail(c)
        j == SkipWs(s, r.i)
    IN  IF ~r.ok \/ j > Len(s) THEN ParseFail(i)
        ELSE IF s[j] = "," THEN ParseMembers(s, j + 1, PutProp(props, key.v.s, r.v))
        ELSE IF s[j] = "}" THEN ParseOk(Obj(PutProp(props, key.v.s, r.v)), j + 1)
        ELSE ParseFail(j)

ParseValue(s, i) ==
    IF i > Len(s) THEN ParseFail(i)
    ELSE IF s[i] = "\"" THEN ParseString(s, i)
    ELSE IF IsDigit(s[i]) THEN ParseNumber(s, i)
    ELSE IF MatchesAt(s, i, LIT_null) THEN ParseOk(Null, i + Len(LIT_null))
    ELSE IF MatchesAt(s, i, LIT_true) THEN ParseOk(Bool(TRUE), i + Len(LIT_true))
    ELSE IF MatchesAt(s, i, LIT_false) THEN ParseOk(Bool(FALSE), i + Len(LIT_false))
    ELSE IF s[i] = "["
         THEN IF SkipWs(s, i + 1) <= Len(s) /\ s[SkipWs(s, i + 1)] = "]"
              THEN ParseOk(Arr(<<>>), SkipWs(s, i + 1) + 1)
              ELSE ParseElements(s, i + 1, <<>>)
    ELSE IF s[i] = "{"
         THEN IF SkipWs(s, i + 1) <= Len(s) /\ s[SkipWs(s, i + 1)] = "}"
              THEN ParseOk(EmptyObject, SkipWs(s, i + 1) + 1)
              ELSE ParseMembers(s, i + 1, <<>>)
    ELSE ParseFail(i)

\* JSON.parse(text): [ok, v]; ok = FALSE stands for the SyntaxError thrown.
JSONparse(text) ==
    LET r == ParseValue(text, SkipWs(text, 1))
    IN  IF r.ok /\ SkipWs(text, r.i) = Len(text) + 1
        THEN [ok |-> TRUE, v |-> r.v]
        ELSE [ok |-> FALSE, v |-> Undefined]

(***************************************************************************)
(* JSON.stringify(value, null, indent) for the values the program prints:  *)
(* an object of scalar properties.  Properties whose value is undefined    *)
(* are omitted; an object left without properties prints as "{}".  With    *)
(* indent 0 the text is compact, as JSON.stringify(value) prints it.       *)
(***************************************************************************)
RECURSIVE ToDigits(_)
ToDigits(n) == IF n < 10 THEN <<Digits[n + 1]>> ELSE ToDigits(n \div 10) \o <<Digits[(n % 10) + 1]>>

Quote(s) == <<"\"">> \o s \o <<"\"">>

StringifyScalar(v) ==
    CASE v.t = "string" -> Quote(v.s)
      [] v.t = "number" -> ToDigits(v.n)
      [] v.t = "boolean" -> IF v.b THEN LIT_true ELSE LIT_false
      [] v.t = "null" -> LIT_null
      [] v.t = "array" -> <<"[", "]">>
      [] OTHER -> <<"{", "}">>

Spaces(n) == [i \in 1..n |-> " "]

RECURSIVE StringifyMembers(_, _)
StringifyMembers(props, indent) ==
    IF props = <<>> THEN <<>>
    ELSE (IF indent > 0 THEN <<"\n">> \o Spaces(indent) ELSE <<>>)
         \o Quote(props[1].k) \o <<":">> \o (IF indent > 0 THEN <<" ">> ELSE <<>>)
         \o StringifyScalar(props[1].v)
         \o (IF Len(props) > 1 THEN <<",">> ELSE IF indent > 0 THEN <<"\n">> ELSE <<>>)
         \o StringifyMembers(Tail(props), indent)

DefinedProps(props) == SelectSeq(props, LAMBDA m : m.v.t # "undefined")

JSONstringify(v, indent) ==
    IF v.t = "object"
    THEN <<"{">> \o StringifyMembers(DefinedProps(v.props), indent) \o <<"}">>
    ELSE StringifyScalar(v)

\* String(v), as a template literal `${v}` converts v.
ToStr(v) ==
    CASE v.t = "string" -> v.s
      [] v.t = "number" -> ToDigits(v.n)
      [] v.t = "boolean" -> IF v.b THEN LIT_true ELSE LIT_false
      [] v.t = "null" -> LIT_null
      [] v.t = "undefined" -> TXT_undefined
      [] v.t = "array" -> <<>>
      [] OTHER -> TXT_object

\* v + 1: numeric addition on a number or boolean, concatenation otherwise.
PlusOne(v) ==
    CASE v.t = "number" -> Num(v.n + 1)
      [] v.t = "boolean" -> Num(IF v.b THEN 2 ELSE 1)
      [] OTHER -> Str(ToStr(v) \o <<"1">>)

(***************************************************************************)
(* The environment: command lines, file contents, standard input, the      *)
(* credential, the persisted session file and the external service.        *)
(***************************************************************************)
PATH_INPUT == <<"/", "i", "n">>
PATH_MISSING == <<"/", "n", "o">>
PATH_PROMPT == <<"/", "p">>
PATH_JSON_PROMPT == <<"/", "q">>
THREAD_1 == <<"t", "1">>
THREAD_2 == <<"t", "2">>
NOW_ISO == <<"2", "0", "2", "6">>
WORD_hello == <<"h", "e", "l", "l", "o">>
WORD_review == <<"r", "e", "v", "i", "e", "w">>
TXT_bogus == <<"b", "o", "g", "u", "s">>
TXT_hi == <<"h", "i">>
TXT_ctx == <<"c", "t", "x">>
TXT_topic == <<"a", "u", "t", "h">>
TXT_dir == <<"/", "w">>
TXT_dir2 == <<"/", "v">>
TXT_file_prompt == <<"F", "P">>
TXT_json_prompt == <<"J", "P">>
TXT_bad == <<"{", "b", "a", "d">>
TXT_response == <<"o", "k">>
TXT_key == <<"s", "k">>

\* The persisted messageCount at which the model stops issuing invocations.
MaxCount == 3
\* How far the longest malformed input exceeds the preview length.
MaxOverlong == 2

\* An optional field of a request text: <<>> when absent, <<value>> when present.
Absent == <<>>
Member(k, s) == Quote(k) \o <<":">> \o Quote(s)
OptMember(k, opt) == IF opt = Absent THEN <<>> ELSE <<Member(k, opt[1])>>
ObjectText(members) == <<"{">> \o Join(members, <<",">>) \o <<"}">>

\* The JSON text of a request with the given optional fields (interface Input,
\* and the promptFile field read at codex.ts:130).
RequestText(action, prompt, context, topic, workingDirectory, promptFile) ==
    ObjectText(OptMember(K_action, action) \o OptMember(K_prompt, prompt)
               \o OptMember(K_context, context) \o OptMember(K_topic, topic)
               \o OptMember(K_workingDirectory, workingDirectory)
               \o OptMember(K_promptFile, promptFile))

ValidActions == {<<ACTION_NEW>>, <<ACTION_CONTINUE>>}

ObjectTexts ==
    {RequestText(a, pr, Absent, Absent, Absent, Absent) :
        a \in ValidActions \cup {Absent, <<TXT_bogus>>},
        pr \in {Absent, <<<<>>>>, <<TXT_hi>>}}
    \cup {RequestText(a, <<TXT_hi>>, Absent, Absent, w, Absent) :
        a \in ValidActions, w \in {<<<<>>>>, <<TXT_dir>>}}
    \cup {RequestText(<<ACTION_NEW>>, <<TXT_hi>>, <<TXT_ctx>>, Absent, Absent, Absent),
          RequestText(<<ACTION_CONTINUE>>, <<TXT_hi>>, Absent, <<TXT_topic>>, Absent, Absent)}
    \cup {RequestText(<<ACTION_NEW>>, pr, Absent, Absent, Absent, pf) :
        pr \in {Absent, <<TXT_hi>>},
        pf \in {<<<<>>>>, <<PATH_JSON_PROMPT>>, <<PATH_MISSING>>}}

\* Texts that JSON.parse rejects: empty, malformed, and malformed and longer
\* than the preview.
MalformedTexts == {<<>>, TXT_bad, [i \in 1..(PREVIEW_LEN + MaxOverlong) |-> "x"]}

\* Texts that parse to a value that is not an object.
NonObjectTexts == {LIT_null, <<"5">>, Quote(TXT_hi), <<"[", "]">>, LIT_true}

StdinTexts == MalformedTexts \cup NonObjectTexts \cup ObjectTexts

InputFileTexts ==
    {TXT_bad, LIT_null,
     RequestText(<<ACTION_NEW>>, <<TXT_hi>>, Absent, Absent, Absent, Absent),
     RequestText(<<ACTION_CONTINUE>>, <<TXT_hi>>, Absent, Absent, <<TXT_dir>>, Absent),
     RequestText(<<ACTION_NEW>>, <<TXT_hi>>, Absent, Absent, Absent, <<PATH_JSON_PROMPT>>)}

\* What a file may hold when it is read; a path with no content is a file
\* that is missing or unreadable.
FileContents(path) ==
    IF path = PATH_INPUT THEN InputFileTexts
    ELSE IF path = PATH_PROMPT THEN {<<>>, TXT_file_prompt}
    ELSE IF path = PATH_JSON_PROMPT THEN {TXT_json_prompt}
    ELSE {}

\* readFileSync(path, "utf-8"): the data, or ok = FALSE for the error thrown.
ReadResults(path) ==
    IF FileContents(path) = {} THEN {[ok |-> FALSE, data |-> <<>>]}
    ELSE {[ok |-> TRUE, data |-> d] : d \in FileContents(path)}

\* process.argv.slice(2) together with process.stdin.isTTY: the command lines
\* the model issues.  With piped standard input positional words are ignored
\* by the program, so one such command line stands for them.
PipedArgs ==
    {<<>>,
     <<FLAG_INPUT_FILE>>,
     <<FLAG_INPUT_FILE, PATH_INPUT>>,
     <<FLAG_INPUT_FILE, PATH_MISSING>>,
     <<FLAG_PROMPT_FILE, PATH_PROMPT>>,
     <<FLAG_PROMPT_FILE, PATH_MISSING>>,
     <<FLAG_PROMPT_FILE>>,
     <<FLAG_VALIDATE>>,
     <<WORD_hello>>}

TerminalArgs ==
    {<<>>,
     <<FLAG_INPUT_FILE>>,
     <<FLAG_INPUT_FILE, PATH_INPUT>>,
     <<FLAG_INPUT_FILE, PATH_INPUT, FLAG_PROMPT_FILE, PATH_PROMPT>>,
     <<FLAG_VALIDATE, FLAG_INPUT_FILE, PATH_INPUT>>,
     <<FLAG_VALIDATE>>,
     <<WORD_hello>>,
     <<WORD_review, WORD_hello>>,
     <<WORD_review, FLAG_VALIDATE>>,
     <<WORD_hello, FLAG_INPUT_FILE>>,
     <<WORD_hello, FLAG_PROMPT_FILE, PATH_PROMPT>>}

CommandLines ==
    {[args |-> a, isTTY |-> FALSE] : a \in PipedArgs}
    \cup {[args |-> a, isTTY |-> TRUE] : a \in TerminalArgs}

\* process.env.OPENAI_API_KEY: unset, empty, or set.
ApiKeyValues == {Undefined, Str(<<>>), Str(TXT_key)}

\* Thread identifiers the external service hands out.
ThreadIds == {THREAD_1, THREAD_2}

\* What thread.run may return: a string, an object with finalResponse, or
\* something else.
RunResults ==
    {Str(TXT_response), Obj(<<[k |-> K_finalResponse, v |-> Str(TXT_response)]>>), Num(7)}

\* The session file: absent, present but unreadable, or present with a text.
FileAbsent == [exists |-> FALSE, readable |-> FALSE, text |-> <<>>]
FileUnreadable == [exists |-> TRUE, readable |-> FALSE, text |-> <<>>]
FileWith(text) == [exists |-> TRUE, readable |-> TRUE, text |-> text]

NumMember(k, n) == Quote(k) \o <<":">> \o ToDigits(n)

InitStateFiles ==
    {FileAbsent, FileUnreadable, FileWith(TXT_bad), FileWith(LIT_null), FileWith(<<"5">>),
     FileWith(<<"{", "}">>),
     FileWith(ObjectText(<<Member(K_threadId, <<>>), NumMember(K_messageCount, 2)>>)),
     FileWith(ObjectText(<<Member(K_threadId, THREAD_1)>>)),
     FileWith(ObjectText(<<Member(K_workingDirectory, TXT_dir2)>>)),
     FileWith(ObjectText(<<Member(K_workingDirectory, <<>>)>>)),
     FileWith(ObjectText(<<Member(K_threadId, THREAD_1), Member(K_topic, TXT_topic),
                           NumMember(K_messageCount, 1),
                           Member(K_workingDirectory, TXT_dir2)>>))}

(***************************************************************************)
(* The program's pure steps.                                               *)
(***************************************************************************)
\* args.indexOf(flag), 1-based; 0 when the flag is absent
IndexOf(a, flag) ==
    IF \E i \in 1..Len(a) : a[i] = flag
    THEN CHOOSE i \in 1..Len(a) : a[i] = flag /\ \A j \in 1..(i - 1) : a[j] # flag
    ELSE 0

\* args[i]: undefined past the end
ArgAt(a, i) == IF i >= 1 /\ i <= Len(a) THEN Str(a[i]) ELSE Undefined

\* flagIndex !== -1 && args[flagIndex + 1]
HasFlagValue(a, flag) == IndexOf(a, flag) # 0 /\ Truthy(ArgAt(a, IndexOf(a, flag) + 1))
FlagValue(a, flag) == a[IndexOf(a, flag) + 1]

\* Looking for --validate in the first argument only.
ValidateMode_FirstArgOnly(a) == Len(a) > 0 /\ a[1] = FLAG_VALIDATE

\* args.includes("--validate")
ValidateMode(a) == \E i \in 1..Len(a) : a[i] = FLAG_VALIDATE

\* args.length > 0 && !args[0].startsWith("--")
UsesCliArgs(a) == Len(a) > 0 /\ ~IsPrefix(FLAG_PREFIX, a[1])

\* JSON.stringify({ action: "new", prompt: args.join(" ") })
CliArgsInput(a) ==
    JSONstringify(Obj(<<[k |-> K_action, v |-> Str(ACTION_NEW)],
                        [k |-> K_prompt, v |-> Str(Join(a, <<" ">>))]>>), 0)

\* ["new", "continue"].includes(input.action)
ActionIsValid(inp) == GetProp(inp, K_action) \in {Str(ACTION_NEW), Str(ACTION_CONTINUE)}

ValidationReport(inp) ==
    [valid |-> TRUE,
     action |-> GetProp(inp, K_action),
     promptLength |-> LengthOf(GetProp(inp, K_prompt)),
     hasContext |-> Truthy(GetProp(inp, K_context)),
     hasTopic |-> Truthy(GetProp(inp, K_topic)),
     hasWorkingDirectory |-> Truthy(GetProp(inp, K_workingDirectory))]

\* loadState()
loadState(file) ==
    IF file.exists
    THEN IF file.readable /\ JSONparse(file.text).ok
         THEN JSONparse(file.text).v
         ELSE EmptyObject
    ELSE EmptyObject

\* the text saveState(state) writes
saveState(st) == FileWith(JSONstringify(st, JSON_INDENT))

\* The fallback to the persisted directory applied to continuations only.
EffectiveWorkingDir_ContinueOnly(inp, st) ==
    IF GetProp(inp, K_action) = Str(ACTION_CONTINUE)
    THEN JsOr(GetProp(inp, K_workingDirectory), GetProp(st, K_workingDirectory))
    ELSE GetProp(inp, K_workingDirectory)

\* The persisted directory preferred to the request's.
EffectiveWorkingDir_RecordFirst(inp, st) ==
    JsOr(GetProp(st, K_workingDirectory), GetProp(inp, K_workingDirectory))

\* input.workingDirectory || state.workingDirectory
EffectiveWorkingDir(inp, st) ==
    JsOr(GetProp(inp, K_workingDirectory), GetProp(st, K_workingDirectory))

ThreadOptions(effWD) ==
    Obj(<<[k |-> K_skipGitRepoCheck, v |-> Bool(TRUE)]>>
        \o (IF Truthy(effWD) THEN <<[k |-> K_workingDirectory, v |-> effWD]>> ELSE <<>>))

\* Resuming whenever the action is "continue", without looking for a prior thread.
ShouldResume_IgnoresThreadId(inp, st) == GetProp(inp, K_action) = Str(ACTION_CONTINUE)

\* input.action === "continue" && state.threadId
ShouldResume(inp, st) ==
    GetProp(inp, K_action) = Str(ACTION_CONTINUE) /\ Truthy(GetProp(st, K_threadId))

FullPrompt(inp) ==
    IF Truthy(GetProp(inp, K_context))
    THEN Str(ToStr(GetProp(inp, K_context)) \o CONTEXT_SEP \o ToStr(GetProp(inp, K_prompt)))
    ELSE GetProp(inp, K_prompt)

ResponseText(res) ==
    IF res.t = "string" THEN res
    ELSE IF HasProps(res) /\ KeyIndex(res.props, K_finalResponse) # 0
         THEN GetProp(res, K_finalResponse)
    ELSE Str(JSONstringify(res, 0))

\* The count of a new thread started from 1 before the increment.
NextMessageCount_NewFromOne(isNew, st) ==
    PlusOne(IF isNew THEN Num(1) ELSE JsOr(GetProp(st, K_messageCount), Num(0)))

\* The count written without the parentheses: isNewThread ? 0 : (count || 0 + 1).
NextMessageCount_Unparenthesised(isNew, st) ==
    IF isNew THEN Num(0) ELSE JsOr(GetProp(st, K_messageCount), Num(1))

\* (isNewThread ? 0 : state.messageCount || 0) + 1
NextMessageCount(isNew, st) ==
    PlusOne(IF isNew THEN Num(0) ELSE JsOr(GetProp(st, K_messageCount), Num(0)))

\* A record that keeps the thread id it was loaded with, when there is one.
NewState_KeepsLoadedThread(inp, st, threadId, isNew, effWD) ==
    Obj(<<[k |-> K_threadId, v |-> JsOr(GetProp(st, K_threadId), threadId)],
          [k |-> K_topic, v |-> JsOr(GetProp(inp, K_topic), JsOr(GetProp(st, K_topic), Str(DEFAULT_TOPIC)))],
          [k |-> K_lastUsed, v |-> Str(NOW_ISO)],
          [k |-> K_messageCount, v |-> NextMessageCount(isNew, st)],
          [k |-> K_workingDirectory, v |-> effWD]>>)

\* A record whose count always continues the prior one, new thread or not.
NewState_NeverResetsCount(inp, st, threadId, isNew, effWD) ==
    Obj(<<[k |-> K_threadId, v |-> threadId],
          [k |-> K_topic, v |-> JsOr(GetProp(inp, K_topic), JsOr(GetProp(st, K_topic), Str(DEFAULT_TOPIC)))],
          [k |-> K_lastUsed, v |-> Str(NOW_ISO)],
          [k |-> K_messageCount, v |-> NextMessageCount(FALSE, st)],
          [k |-> K_workingDirectory, v |-> effWD]>>)

NewState(inp, st, threadId, isNew, effWD) ==
    Obj(<<[k |-> K_threadId, v |-> threadId],
          [k |-> K_topic, v |-> JsOr(GetProp(inp, K_topic), JsOr(GetProp(st, K_topic), Str(DEFAULT_TOPIC)))],
          [k |-> K_lastUsed, v |-> Str(NOW_ISO)],
          [k |-> K_messageCount, v |-> NextMessageCount(isNew, st)],
          [k |-> K_workingDirectory, v |-> effWD]>>)

ErrorPayload(kind, detail) ==
    [success |-> FALSE, error |-> [kind |-> kind, detail |-> detail], canContinue |-> FALSE]

SuccessPayload(threadId, response) ==
    [success |-> TRUE, threadId |-> threadId, response |-> response, canContinue |-> TRUE]

(***************************************************************************)
(* State.  The session file is shared; everything else belongs to one      *)
(* invocation (one process) and is indexed by it.                          *)
(***************************************************************************)
Procs == {1, 2}
\* Sequential use, the intended one: a single caller, one invocation at a time.
SeqProcs == {1}

VARIABLES
    stateFile,             \* STATE_FILE on disk
    pc,                    \* where each invocation is in main()
    args,                  \* process.argv.slice(2)
    isTTY,                 \* process.stdin.isTTY
    inputData,             \* the raw request text
    input,                 \* the parsed request
    apiKey,                \* process.env.OPENAI_API_KEY, once read
    state,                 \* the loaded session record
    thread,                \* the thread handle: how opened, its id, its options
    isNewThread,
    effectiveWorkingDir,
    result,                \* what thread.run returned
    stdout,                \* the payloads printed
    exitCode,              \* the exit status; -1 while running
    trace,                 \* the invocation's reads, writes and external calls, in order
    stateBefore,           \* the session file as it was when the invocation started
    lastSuccess,           \* the thread id the latest success payload reported, if any
    lastWriter,            \* the invocation that wrote the session file last; 0 for none
    successesSinceNew,     \* successes since, and with, the latest one on a new thread
    dirPersisted           \* the session file has held a non-empty workingDirectory

locals == <<args, isTTY, inputData, input, apiKey, state, thread, isNewThread,
            effectiveWorkingDir, result>>
history == <<stateBefore, lastSuccess, lastWriter, successesSinceNew, dirPersisted>>
vars == <<stateFile, pc, locals, stdout, exitCode, trace, history>>

NoThread == [kind |-> "none", id |-> Null, options |-> EmptyObject]

\* whether a session file holds a record with a non-empty workingDirectory
HoldsDirectory(file) ==
    /\ ~IsNullish(loadState(file))
    /\ Truthy(GetProp(loadState(file), K_workingDirectory))

Init ==
    /\ stateFile \in InitStateFiles
    /\ pc = [p \in Procs |-> "idle"]
    /\ args = [p \in Procs |-> <<>>]
    /\ isTTY = [p \in Procs |-> TRUE]
    /\ inputData = [p \in Procs |-> <<>>]
    /\ input = [p \in Procs |-> Undefined]
    /\ apiKey = [p \in Procs |-> Undefined]
    /\ state = [p \in Procs |-> Undefined]
    /\ thread = [p \in Procs |-> NoThread]
    /\ isNewThread = [p \in Procs |-> TRUE]
    /\ effectiveWorkingDir = [p \in Procs |-> Undefined]
    /\ result = [p \in Procs |-> Undefined]
    /\ stdout = [p \in Procs |-> <<>>]
    /\ exitCode = [p \in Procs |-> -1]
    /\ trace = [p \in Procs |-> <<>>]
    /\ stateBefore = [p \in Procs |-> FileAbsent]
    /\ lastSuccess = Undefined
    /\ lastWriter = 0
    /\ successesSinceNew = 0
    /\ dirPersisted = HoldsDirectory(stateFile)

Set(f, p, v) == [f EXCEPT ![p] = v]
\* One entry per read, write or external call: the operation, its argument
\* (a path, a thread id, a prompt) and, for a read, the data it returned.
LogRead(p, op, arg, data) ==
    [trace EXCEPT ![p] = Append(@, [op |-> op, arg |-> arg, data |-> data])]
Log(p, op, arg) == LogRead(p, op, arg, <<>>)

\* process.exit(code), or main() returning (code 0)
Exit(p, code) ==
    /\ pc' = Set(pc, p, "exited")
    /\ exitCode' = Set(exitCode, p, code)

\* output(payload); process.exit(code)
OutputAndExit(p, payload, code) ==
    /\ stdout' = [stdout EXCEPT ![p] = Append(@, payload)]
    /\ Exit(p, code)

Goto(p, next) ==
    /\ pc' = Set(pc, p, next)
    /\ UNCHANGED <<stdout, exitCode>>

\* The model issues no further invocation once the persisted count is MaxCount.
CountBelowBound ==
    LET c == IF IsNullish(loadState(stateFile)) THEN Undefined
             ELSE GetProp(loadState(stateFile), K_messageCount)
    IN  c.t = "number" => c.n < MaxCount

\* A new process is started with some command line and standard input.
Start(p) ==
    /\ pc[p] = "idle"
    /\ CountBelowBound
    /\ \E c \in CommandLines :
        /\ args' = Set(args, p, c.args)
        /\ isTTY' = Set(isTTY, p, c.isTTY)
    /\ pc' = Set(pc, p, "input")
    /\ stateBefore' = Set(stateBefore, p, stateFile)
    /\ UNCHANGED <<stateFile, inputData, input, apiKey, state, thread, isNewThread,
                   effectiveWorkingDir, result, stdout, exitCode, trace, lastSuccess,
                   lastWriter, successesSinceNew, dirPersisted>>

\* The caller has collected the exit status and the output; the process and
\* its memory are gone.
Reap(p) ==
    /\ pc[p] = "exited"
    /\ pc' = Set(pc, p, "idle")
    /\ args' = Set(args, p, <<>>)
    /\ isTTY' = Set(isTTY, p, TRUE)
    /\ inputData' = Set(inputData, p, <<>>)
    /\ input' = Set(input, p, Undefined)
    /\ apiKey' = Set(apiKey, p, Undefined)
    /\ state' = Set(state, p, Undefined)
    /\ thread' = Set(thread, p, NoThread)
    /\ isNewThread' = Set(isNewThread, p, TRUE)
    /\ effectiveWorkingDir' = Set(effectiveWorkingDir, p, Undefined)
    /\ result' = Set(result, p, Undefined)
    /\ stdout' = Set(stdout, p, <<>>)
    /\ exitCode' = Set(exitCode, p, -1)
    /\ trace' = Set(trace, p, <<>>)
    /\ stateBefore' = Set(stateBefore, p, FileAbsent)
    /\ UNCHANGED <<stateFile, lastSuccess, lastWriter, successesSinceNew, dirPersisted>>

\* The channels tried with piped standard input ahead of --input-file.
ObtainInput_StdinFirst(p) ==
    /\ pc[p] = "input"
    /\ \/ /\ ~isTTY[p]
          /\ \E text \in StdinTexts :
                /\ inputData' = Set(inputData, p, text)
                /\ trace' = LogRead(p, "readStdin", <<>>, text)
          /\ Goto(p, "parse")
       \/ /\ isTTY[p]
          /\ HasFlagValue(args[p], FLAG_INPUT_FILE)
          /\ \E r \in ReadResults(FlagValue(args[p], FLAG_INPUT_FILE)) :
                /\ trace' = LogRead(p, "readInputFile",
                                     FlagValue(args[p], FLAG_INPUT_FILE), r.data)
                /\ IF r.ok
                   THEN /\ inputData' = Set(inputData, p, r.data)
                        /\ Goto(p, "parse")
                   ELSE /\ UNCHANGED inputData
                        /\ OutputAndExit(p, ErrorPayload("Failed to read input file",
                                            FlagValue(args[p], FLAG_INPUT_FILE)), 1)
       \/ /\ ~HasFlagValue(args[p], FLAG_INPUT_FILE)
          /\ isTTY[p]
          /\ UsesCliArgs(args[p])
          /\ inputData' = Set(inputData, p, CliArgsInput(args[p]))
          /\ UNCHANGED trace
          /\ Goto(p, "parse")
       \/ /\ ~HasFlagValue(args[p], FLAG_INPUT_FILE)
          /\ isTTY[p]
          /\ ~UsesCliArgs(args[p])
          /\ UNCHANGED <<inputData, trace>>
          /\ OutputAndExit(p, ErrorPayload("No input provided", <<>>), 1)
    /\ UNCHANGED <<stateFile, args, isTTY, input, apiKey, state, thread, isNewThread,
                   effectiveWorkingDir, result, history>>

\* codex.ts:65-98: locate the raw request text.
ObtainInput(p) ==
    /\ pc[p] = "input"
    /\ \/ /\ HasFlagValue(args[p], FLAG_INPUT_FILE)
          /\ \E r \in ReadResults(FlagValue(args[p], FLAG_INPUT_FILE)) :
                /\ trace' = LogRead(p, "readInputFile",
                                     FlagValue(args[p], FLAG_INPUT_FILE), r.data)
                /\ IF r.ok
                   THEN /\ inputData' = Set(inputData, p, r.data)
                        /\ Goto(p, "parse")
                   ELSE /\ UNCHANGED inputData
                        /\ OutputAndExit(p, ErrorPayload("Failed to read input file",
                                            FlagValue(args[p], FLAG_INPUT_FILE)), 1)
       \/ /\ ~HasFlagValue(args[p], FLAG_INPUT_FILE)
          /\ ~isTTY[p]
          /\ \E text \in StdinTexts :
                /\ inputData' = Set(inputData, p, text)
                /\ trace' = LogRead(p, "readStdin", <<>>, text)
          /\ Goto(p, "parse")
       \/ /\ ~HasFlagValue(args[p], FLAG_INPUT_FILE)
          /\ isTTY[p]
          /\ UsesCliArgs(args[p])
          /\ inputData' = Set(inputData, p, CliArgsInput(args[p]))
          /\ UNCHANGED trace
          /\ Goto(p, "parse")
       \/ /\ ~HasFlagValue(args[p], FLAG_INPUT_FILE)
          /\ isTTY[p]
          /\ ~UsesCliArgs(args[p])
          /\ UNCHANGED <<inputData, trace>>
          /\ OutputAndExit(p, ErrorPayload("No input provided", <<>>), 1)
    /\ UNCHANGED <<stateFile, args, isTTY, input, apiKey, state, thread, isNewThread,
                   effectiveWorkingDir, result, history>>

\* codex.ts:100-112: JSON.parse(inputData)
ParseInput(p) ==
    /\ pc[p] = "parse"
    /\ IF JSONparse(inputData[p]).ok
       THEN /\ input' = Set(input, p, JSONparse(inputData[p]).v)
            /\ Goto(p, "promptFile")
       ELSE /\ UNCHANGED input
            /\ OutputAndExit(p, ErrorPayload("Invalid JSON input",
                   JSONstringify(Str(Slice0(inputData[p], PREVIEW_LEN)), 0)), 1)
    /\ UNCHANGED <<stateFile, args, isTTY, inputData, apiKey, state, thread, isNewThread,
                   effectiveWorkingDir, result, trace, history>>

\* The override with the request's promptFile consulted before --prompt-file.
PromptSource_JsonFirst(a, inp) ==
    IF ~IsNullish(inp) /\ Truthy(GetProp(inp, K_promptFile)) THEN "json"
    ELSE IF HasFlagValue(a, FLAG_PROMPT_FILE) THEN "flag"
    ELSE IF IsNullish(inp) THEN "throw"
    ELSE "none"

\* codex.ts:114-143: which source the prompt override takes: the file named
\* by --prompt-file, else the file named by the request's promptFile, else
\* none.  The read of input.promptFile at line 130 is outside any try block:
\* on a null input it throws an exception nothing catches.
PromptSource(a, inp) ==
    IF HasFlagValue(a, FLAG_PROMPT_FILE) THEN "flag"
    ELSE IF IsNullish(inp) THEN "throw"
    ELSE IF Truthy(GetProp(inp, K_promptFile)) THEN "json"
    ELSE "none"

PromptPath(a, inp) ==
    IF PromptSource(a, inp) = "flag" THEN FlagValue(a, FLAG_PROMPT_FILE)
    ELSE ToStr(GetProp(inp, K_promptFile))

\* The assignment input.prompt = readFileSync(...) sits inside the try block,
\* so a TypeError from assigning to null or to a primitive (strict mode) is
\* reported like a read failure.
PromptFileOverride(p) ==
    /\ pc[p] = "promptFile"
    /\ \/ /\ PromptSource(args[p], input[p]) \in {"flag", "json"}
          /\ \E r \in ReadResults(PromptPath(args[p], input[p])) :
                /\ trace' = LogRead(p, "readPromptFile", PromptPath(args[p], input[p]), r.data)
                /\ IF r.ok /\ CanSetProp(input[p])
                   THEN /\ input' = Set(input, p, SetProp(input[p], K_prompt, Str(r.data)))
                        /\ Goto(p, "action")
                   ELSE /\ UNCHANGED input
                        /\ OutputAndExit(p, ErrorPayload("Failed to read prompt file",
                                            PromptPath(args[p], input[p])), 1)
       \/ /\ PromptSource(args[p], input[p]) = "throw"
          /\ trace' = Log(p, "uncaughtException", <<>>)
          /\ UNCHANGED <<input, stdout>>
          /\ Exit(p, 1)
       \/ /\ PromptSource(args[p], input[p]) = "none"
          /\ UNCHANGED <<input, trace>>
          /\ Goto(p, "action")
    /\ UNCHANGED <<stateFile, args, isTTY, inputData, apiKey, state, thread, isNewThread,
                   effectiveWorkingDir, result, history>>

\* codex.ts:145-153
ValidateAction(p) ==
    /\ pc[p] = "action"
    /\ IF ActionIsValid(input[p])
       THEN Goto(p, "prompt")
       ELSE OutputAndExit(p, ErrorPayload("Invalid action",
                                          ToStr(GetProp(input[p], K_action))), 1)
    /\ UNCHANGED <<stateFile, locals, trace, history>>

\* The prompt check left out: every request goes on to the next step.
ValidatePrompt_Omitted(p) ==
    /\ pc[p] = "prompt"
    /\ Goto(p, "validateMode")
    /\ UNCHANGED <<stateFile, locals, trace, history>>

\* codex.ts:155-162
ValidatePrompt(p) ==
    /\ pc[p] = "prompt"
    /\ IF Truthy(GetProp(input[p], K_prompt))
       THEN Goto(p, "validateMode")
       ELSE OutputAndExit(p, ErrorPayload("Missing 'prompt' field in input", <<>>), 1)
    /\ UNCHANGED <<stateFile, locals, trace, history>>

\* codex.ts:164-175
ValidateOnly(p) ==
    /\ pc[p] = "validateMode"
    /\ IF ValidateMode(args[p])
       THEN OutputAndExit(p, ValidationReport(input[p]), 0)
       ELSE Goto(p, "apiKey")
    /\ UNCHANGED <<stateFile, locals, trace, history>>

\* codex.ts:177-185
CheckApiKey(p) ==
    /\ pc[p] = "apiKey"
    /\ \E key \in ApiKeyValues :
        /\ apiKey' = Set(apiKey, p, key)
        /\ IF Truthy(key)
           THEN Goto(p, "load")
           ELSE OutputAndExit(p, ErrorPayload("OPENAI_API_KEY environment variable not set",
                                              <<>>), 1)
    /\ trace' = Log(p, "checkApiKey", <<>>)
    /\ UNCHANGED <<stateFile, args, isTTY, inputData, input, state, thread, isNewThread,
                   effectiveWorkingDir, result, history>>

\* codex.ts:187
LoadState(p) ==
    /\ pc[p] = "load"
    /\ state' = Set(state, p, loadState(stateFile))
    /\ trace' = Log(p, "loadState", <<>>)
    /\ Goto(p, "open")
    /\ UNCHANGED <<stateFile, args, isTTY, inputData, input, apiKey, thread, isNewThread,
                   effectiveWorkingDir, result, history>>

\* A catch block that persists the half-completed attempt before reporting.
CatchError_PersistsAttempt(p) ==
    /\ OutputAndExit(p, ErrorPayload("Codex error", <<>>), 1)
    /\ stateFile' = saveState(NewState(input[p], state[p], thread[p].id,
                                       isNewThread[p], effectiveWorkingDir[p]))

\* the catch block, codex.ts:253-261: report the error and exit; the session
\* file is not touched
CatchError(p) ==
    /\ OutputAndExit(p, ErrorPayload("Codex error", <<>>), 1)
    /\ UNCHANGED stateFile

\* codex.ts:192-216: resolve the working directory and open the thread.
\* Reading state.workingDirectory throws when the loaded value is null.
OpenThread(p) ==
    /\ pc[p] = "open"
    /\ \/ /\ IsNullish(state[p])
          /\ UNCHANGED <<thread, isNewThread, effectiveWorkingDir, trace>>
          /\ CatchError(p)
       \/ /\ ~IsNullish(state[p])
          /\ effectiveWorkingDir' =
                Set(effectiveWorkingDir, p, EffectiveWorkingDir(input[p], state[p]))
          /\ trace' = IF ShouldResume(input[p], state[p])
                      THEN Log(p, "resumeThread", ToStr(GetProp(state[p], K_threadId)))
                      ELSE Log(p, "startThread", <<>>)
          /\ \/ /\ thread' = Set(thread, p,
                       [kind |-> IF ShouldResume(input[p], state[p]) THEN "resume" ELSE "start",
                        id |-> IF ShouldResume(input[p], state[p])
                               THEN GetProp(state[p], K_threadId) ELSE Null,
                        options |-> ThreadOptions(EffectiveWorkingDir(input[p], state[p]))])
                /\ isNewThread' = Set(isNewThread, p, ~ShouldResume(input[p], state[p]))
                /\ Goto(p, "run")
                /\ UNCHANGED stateFile
             \/ /\ UNCHANGED <<thread, isNewThread>>
                /\ CatchError(p)
    /\ UNCHANGED <<args, isTTY, inputData, input, apiKey, state, result, history>>

\* codex.ts:218-225: await thread.run(fullPrompt).  A started thread gets
\* its id from the service; a resumed thread keeps the id it was resumed by.
RunPrompt(p) ==
    /\ pc[p] = "run"
    /\ trace' = Log(p, "run", ToStr(FullPrompt(input[p])))
    /\ \/ /\ \E res \in RunResults, id \in ThreadIds :
                /\ thread[p].kind = "resume" => Str(id) = thread[p].id
                /\ result' = Set(result, p, res)
                /\ thread' = Set(thread, p, [thread[p] EXCEPT !.id = Str(id)])
          /\ Goto(p, "save")
          /\ UNCHANGED stateFile
       \/ /\ UNCHANGED <<thread, result>>
          /\ CatchError(p)
    /\ UNCHANGED <<args, isTTY, inputData, input, apiKey, state, isNewThread,
                   effectiveWorkingDir, history>>

\* A save that loads the file again and builds the record on what it finds,
\* so that a concurrent update is merged instead of overwritten.
SaveState_MergesWithFile(p) ==
    /\ pc[p] = "save"
    /\ trace' = Log(p, "saveState", <<>>)
    /\ \/ /\ stateFile' = saveState(NewState(input[p],
                                  IF IsNullish(loadState(stateFile)) THEN state[p]
                                  ELSE loadState(stateFile),
                                  thread[p].id, isNewThread[p], effectiveWorkingDir[p]))
          /\ lastWriter' = p
          /\ dirPersisted' = (dirPersisted \/ HoldsDirectory(stateFile'))
          /\ Goto(p, "emit")
       \/ /\ CatchError(p)
          /\ UNCHANGED <<lastWriter, dirPersisted>>
    /\ UNCHANGED <<locals, stateBefore, lastSuccess, successesSinceNew>>

\* codex.ts:237-245: build the new record and write it.  writeFileSync may
\* throw (the file cannot be opened for writing), leaving the file as it was.
SaveState(p) ==
    /\ pc[p] = "save"
    /\ trace' = Log(p, "saveState", <<>>)
    /\ \/ /\ stateFile' = saveState(NewState(input[p], state[p], thread[p].id,
                                             isNewThread[p], effectiveWorkingDir[p]))
          /\ lastWriter' = p
          /\ dirPersisted' = (dirPersisted \/ HoldsDirectory(stateFile'))
          /\ Goto(p, "emit")
       \/ /\ CatchError(p)
          /\ UNCHANGED <<lastWriter, dirPersisted>>
    /\ UNCHANGED <<locals, stateBefore, lastSuccess, successesSinceNew>>

\* codex.ts:247-252, after which main() returns
EmitSuccess(p) ==
    /\ pc[p] = "emit"
    /\ OutputAndExit(p, SuccessPayload(thread[p].id, ResponseText(result[p])), 0)
    /\ lastSuccess' = thread[p].id
    /\ successesSinceNew' = IF isNewThread[p] THEN 1 ELSE successesSinceNew + 1
    /\ UNCHANGED <<stateFile, locals, trace, stateBefore, lastWriter, dirPersisted>>

Step(p) ==
    \/ Start(p)
    \/ ObtainInput(p)
    \/ ParseInput(p)
    \/ PromptFileOverride(p)
    \/ ValidateAction(p)
    \/ ValidatePrompt(p)
    \/ ValidateOnly(p)
    \/ CheckApiKey(p)
    \/ LoadState(p)
    \/ OpenThread(p)
    \/ RunPrompt(p)
    \/ SaveState(p)
    \/ EmitSuccess(p)
    \/ Reap(p)

Next == \E p \in SeqProcs : Step(p)

Spec == Init /\ [][Next]_vars

(***************************************************************************)
(* Sequential use from the start: no session file yet, so every record     *)
(* ever loaded was written by the program itself.                          *)
(***************************************************************************)
InitFresh == Init /\ stateFile = FileAbsent

SpecFresh == InitFresh /\ [][Next]_vars

(***************************************************************************)
(* Two invocations at once on one session file.  Nothing in the program    *)
(* locks the file: loadState, thread.run (awaited) and saveState of the    *)
(* two processes interleave freely.  Each process runs one invocation,     *)
(* its request piped on standard input.                                    *)
(***************************************************************************)
RaceStateFiles ==
    {FileAbsent,
     FileWith(ObjectText(<<Member(K_threadId, THREAD_1), Member(K_topic, TXT_topic),
                           NumMember(K_messageCount, 1),
                           Member(K_workingDirectory, TXT_dir2)>>))}

InitRace == Init /\ stateFile \in RaceStateFiles

StartRace(p) == Start(p) /\ args'[p] = <<>> /\ ~isTTY'[p]

RaceTexts ==
    {TXT_bad,
     RequestText(<<ACTION_NEW>>, <<TXT_hi>>, Absent, Absent, Absent, Absent),
     RequestText(<<ACTION_CONTINUE>>, <<TXT_hi>>, Absent, Absent, Absent, Absent),
     RequestText(<<ACTION_CONTINUE>>, <<TXT_hi>>, Absent, Absent, <<TXT_dir>>, Absent)}

ObtainInputRace(p) == ObtainInput(p) /\ inputData'[p] \in RaceTexts

StepRace(p) ==
    \/ StartRace(p)
    \/ ObtainInputRace(p)
    \/ ParseInput(p)
    \/ PromptFileOverride(p)
    \/ ValidateAction(p)
    \/ ValidatePrompt(p)
    \/ ValidateOnly(p)
    \/ CheckApiKey(p)
    \/ LoadState(p)
    \/ OpenThread(p)
    \/ RunPrompt(p)
    \/ SaveState(p)
    \/ EmitSuccess(p)

NextRace == \E p \in Procs : StepRace(p)

SpecRace == InitRace /\ [][NextRace]_vars

(***************************************************************************)
(* Vocabulary of the properties.                                           *)
(***************************************************************************)
Ops(p) == {trace[p][i].op : i \in DOMAIN trace[p]}
Events(p, op) == {i \in DOMAIN trace[p] : trace[p][i].op = op}
Exited(p) == pc[p] = "exited"
Failed(p) == Exited(p) /\ exitCode[p] # 0
IsErrorPayload(m) == "success" \in DOMAIN m /\ ~m.success
IsSuccessPayload(m) == "success" \in DOMAIN m /\ m.success
IsReport(m) == "valid" \in DOMAIN m
Succeeded(p) == Exited(p) /\ exitCode[p] = 0 /\ \E i \in DOMAIN stdout[p] : IsSuccessPayload(stdout[p][i])
\* the record a load of the session file gave when the invocation started
PriorRecord(p) == loadState(stateBefore[p])
\* the record now on disk
PersistedRecord == loadState(stateFile)
RunReturned(p) == \E i \in Events(p, "run") : result[p] # Undefined

(***************************************************************************)
(* C1.  An invocation that ends in failure leaves the session file exactly *)
(* as it found it; the file is written only by saveState, and saveState is *)
(* reached only after thread.run has returned; hence a thread that is      *)
(* resumed is always the thread of the latest successful invocation.       *)
(***************************************************************************)
C1_FailureKeepsRecord ==
    \A p \in Procs :
        /\ Failed(p) => stateFile = stateBefore[p]
        /\ (pc[p] # "idle" /\ stateFile # stateBefore[p]) =>
                Events(p, "saveState") # {} /\ exitCode[p] \in {-1, 0}
        /\ \A i \in Events(p, "saveState") :
                RunReturned(p) /\ \E j \in Events(p, "run") : j < i
        /\ (lastSuccess # Undefined /\ Events(p, "resumeThread") # {}) =>
                \A i \in Events(p, "resumeThread") : trace[p][i].arg = lastSuccess.s

\* a run that threw, after an earlier invocation had succeeded
C1_Witness ==
    \E p \in Procs :
        /\ Failed(p) /\ Events(p, "run") # {} /\ Events(p, "saveState") = {}
        /\ lastSuccess # Undefined
        /\ GetProp(PersistedRecord, K_threadId) = lastSuccess

\* the open step (codex.ts:192-216) has been executed
HasOpened(p) == Events(p, "loadState") # {} /\ pc[p] # "open"
\* the record has been written and the success payload is due or printed
HasSaved(p) == pc[p] = "emit" \/ Succeeded(p)
RequestAction(p) == GetProp(input[p], K_action)
PriorThreadId(p) == GetProp(PriorRecord(p), K_threadId)
\* the prior record's messageCount, an absent one counting as 0
PriorCount(p) ==
    IF GetProp(PriorRecord(p), K_messageCount).t = "number"
    THEN GetProp(PriorRecord(p), K_messageCount).n ELSE 0

(***************************************************************************)
(* C2.  A valid request with action "continue", when the loaded record     *)
(* holds a thread id, opens its thread by resumeThread with exactly that   *)
(* id and never by startThread; once it has saved, the persisted           *)
(* messageCount is the prior record's count (0 when it has none) plus 1.   *)
(***************************************************************************)
C2_ContinueResumesPriorThread ==
    \A p \in Procs :
        (HasOpened(p) /\ RequestAction(p) = Str(ACTION_CONTINUE) /\ Truthy(PriorThreadId(p))) =>
            /\ Events(p, "startThread") = {}
            /\ Cardinality(Events(p, "resumeThread")) = 1
            /\ \A i \in Events(p, "resumeThread") : Str(trace[p][i].arg) = PriorThreadId(p)
            /\ thread[p].kind = "resume" => thread[p].id = PriorThreadId(p)
            /\ HasSaved(p) =>
                   GetProp(PersistedRecord, K_messageCount) = Num(PriorCount(p) + 1)

\* a successful continue of a thread that already had two messages
C2_Witness ==
    \E p \in Procs :
        /\ Succeeded(p) /\ RequestAction(p) = Str(ACTION_CONTINUE)
        /\ Events(p, "resumeThread") # {} /\ PriorCount(p) = 2
        /\ GetProp(PersistedRecord, K_messageCount) = Num(3)

(***************************************************************************)
(* C3.  A valid request with action "new" opens its thread by startThread  *)
(* and never by resumeThread; once it has saved, the persisted             *)
(* messageCount is 1, whatever count and thread id the prior record held.  *)
(***************************************************************************)
C3_NewStartsAtOne ==
    \A p \in Procs :
        (HasOpened(p) /\ ~IsNullish(PriorRecord(p)) /\ RequestAction(p) = Str(ACTION_NEW)) =>
            /\ Events(p, "resumeThread") = {}
            /\ Cardinality(Events(p, "startThread")) = 1
            /\ HasSaved(p) => GetProp(PersistedRecord, K_messageCount) = Num(1)

\* a successful new on top of a record that holds a thread with two messages
C3_Witness ==
    \E p \in Procs :
        /\ Succeeded(p) /\ RequestAction(p) = Str(ACTION_NEW)
        /\ Truthy(PriorThreadId(p)) /\ PriorCount(p) = 2
        /\ GetProp(PersistedRecord, K_messageCount) = Num(1)

(***************************************************************************)
(* C4.  When the loaded record holds no thread id (file absent, empty      *)
(* record, empty-string id), a request and the same request with the other *)
(* action ("continue" for "new") open the thread the same way (startThread *)
(* with the same options), send the same prompt and write the same record; *)
(* the open is reached and the count written is 1.                         *)
(***************************************************************************)
OtherAction(inp) ==
    SetProp(inp, K_action,
            IF GetProp(inp, K_action) = Str(ACTION_CONTINUE)
            THEN Str(ACTION_NEW) ELSE Str(ACTION_CONTINUE))

SamePlan(inp, twin, st) ==
    /\ ShouldResume(twin, st) = ShouldResume(inp, st)
    /\ ThreadOptions(EffectiveWorkingDir(twin, st)) = ThreadOptions(EffectiveWorkingDir(inp, st))
    /\ FullPrompt(twin) = FullPrompt(inp)
    /\ \A id \in ThreadIds :
          NewState(twin, st, Str(id), ~ShouldResume(twin, st), EffectiveWorkingDir(twin, st))
            = NewState(inp, st, Str(id), ~ShouldResume(inp, st), EffectiveWorkingDir(inp, st))

C4_ContinueWithoutThreadIsNew ==
    \A p \in Procs :
        (Events(p, "loadState") # {} /\ ~IsNullish(PriorRecord(p)) /\ ~Truthy(PriorThreadId(p))) =>
            /\ SamePlan(input[p], OtherAction(input[p]), PriorRecord(p))
            /\ pc[p] # "open" =>
                   /\ Events(p, "resumeThread") = {}
                   /\ Cardinality(Events(p, "startThread")) = 1
                   /\ thread[p].kind = "start" => thread[p].options =
                          ThreadOptions(EffectiveWorkingDir(OtherAction(input[p]), PriorRecord(p)))
            /\ HasSaved(p) =>
                   /\ GetProp(PersistedRecord, K_messageCount) = Num(1)
                   /\ stateFile = saveState(NewState(OtherAction(input[p]), PriorRecord(p),
                                      thread[p].id, TRUE,
                                      EffectiveWorkingDir(OtherAction(input[p]), PriorRecord(p))))

\* a successful continue on a record whose thread id is the empty string
C4_Witness ==
    \E p \in Procs :
        /\ Succeeded(p) /\ RequestAction(p) = Str(ACTION_CONTINUE)
        /\ PriorThreadId(p) = Str(<<>>) /\ PriorCount(p) = 2
        /\ Events(p, "startThread") # {}

(***************************************************************************)
(* C5.  Every invocation ends having printed exactly one payload: one that *)
(* exits with a non-zero status has printed one structured error payload   *)
(* {success: false, error, canContinue: false}, one that exits with status *)
(* 0 a success payload or a validation report.                             *)
(***************************************************************************)
C5_EveryFailureIsStructured ==
    \A p \in Procs :
        Exited(p) =>
            /\ Len(stdout[p]) = 1
            /\ exitCode[p] # 0 =>
                   IsErrorPayload(stdout[p][1]) /\ ~stdout[p][1].canContinue
            /\ exitCode[p] = 0 =>
                   IsSuccessPayload(stdout[p][1]) \/ IsReport(stdout[p][1])

(***************************************************************************)
(* C6.  An invocation given --validate never checks the credential, never  *)
(* loads or saves the session record and never calls startThread,          *)
(* resumeThread or run; the session file stays as it was.  When it exits   *)
(* with status 0 it has printed the validation report of its input; when   *)
(* it exits with another status the input did not pass validation (the     *)
(* error is an input, parse, prompt-file or validation error, never the    *)
(* credential's or the service's).                                         *)
(***************************************************************************)
ValidateGiven(a) == \E i \in DOMAIN a : a[i] = FLAG_VALIDATE

InputErrors ==
    {"No input provided", "Failed to read input file", "Invalid JSON input",
     "Failed to read prompt file", "Invalid action", "Missing 'prompt' field in input"}

C6_ValidateTouchesNothing ==
    \A p \in Procs :
        (pc[p] # "idle" /\ ValidateGiven(args[p])) =>
            /\ Ops(p) \cap {"checkApiKey", "loadState", "startThread", "resumeThread",
                            "run", "saveState"} = {}
            /\ pc[p] \notin {"apiKey", "load", "open", "run", "save", "emit"}
            /\ apiKey[p] = Undefined
            /\ stateFile = stateBefore[p]
            /\ (Exited(p) /\ exitCode[p] = 0) =>
                   /\ stdout[p] = <<ValidationReport(input[p])>>
                   /\ GetProp(input[p], K_action) \in {Str(ACTION_NEW), Str(ACTION_CONTINUE)}
                   /\ Truthy(GetProp(input[p], K_prompt))
            /\ (Exited(p) /\ exitCode[p] # 0 /\ stdout[p] # <<>>) =>
                   stdout[p][1].error.kind \in InputErrors

\* a validation report printed while the session file holds a thread
C6_Witness ==
    \E p \in Procs :
        /\ Exited(p) /\ exitCode[p] = 0 /\ ValidateGiven(args[p])
        /\ Len(stdout[p]) = 1 /\ IsReport(stdout[p][1])
        /\ Truthy(GetProp(PersistedRecord, K_threadId))

(***************************************************************************)
(* C7.  Given --input-file <path>, with standard input piped or not, the   *)
(* request text is what the read of that file returned: the file is the    *)
(* first and only input read, standard input is never read, and when the   *)
(* file cannot be read the invocation ends with the input-file read error  *)
(* naming the path.                                                        *)
(***************************************************************************)
FirstIndex(a, flag) == CHOOSE i \in DOMAIN a : a[i] = flag /\ \A j \in 1..(i - 1) : a[j] # flag
FlagGivenWithValue(a, flag) ==
    /\ \E i \in DOMAIN a : a[i] = flag
    /\ FirstIndex(a, flag) < Len(a)
    /\ a[FirstIndex(a, flag) + 1] # <<>>
ValueAfter(a, flag) == a[FirstIndex(a, flag) + 1]

C7_InputFileExcludesStdin ==
    \A p \in Procs :
        (pc[p] \notin {"idle", "input"} /\ FlagGivenWithValue(args[p], FLAG_INPUT_FILE)) =>
            /\ Events(p, "readStdin") = {}
            /\ Events(p, "readInputFile") = {1}
            /\ trace[p][1].arg = ValueAfter(args[p], FLAG_INPUT_FILE)
            /\ IF FileContents(ValueAfter(args[p], FLAG_INPUT_FILE)) = {}
               THEN /\ Failed(p)
                    /\ stdout[p] = <<ErrorPayload("Failed to read input file",
                                                  ValueAfter(args[p], FLAG_INPUT_FILE))>>
               ELSE /\ inputData[p] = trace[p][1].data
                    /\ inputData[p] \in FileContents(ValueAfter(args[p], FLAG_INPUT_FILE))

\* piped standard input and a readable input file, the request parsed
C7_Witness ==
    \E p \in Procs :
        /\ ~isTTY[p] /\ FlagGivenWithValue(args[p], FLAG_INPUT_FILE)
        /\ pc[p] = "promptFile" /\ input[p].t = "object"
        /\ inputData[p] = trace[p][1].data

(***************************************************************************)
(* C8.  The request is synthesized from the command-line words exactly     *)
(* when no --input-file is given, standard input is a terminal, there is   *)
(* at least one argument and no argument starts with "--"; it is then      *)
(* {action: "new", prompt: the words joined by single spaces}.  With an    *)
(* argument that starts with "--" and no other channel, the invocation     *)
(* ends with the "no input provided" error.                                *)
(***************************************************************************)
LooksLikeFlag(word) == Len(word) >= 2 /\ word[1] = "-" /\ word[2] = "-"
PlainWordsOnly(p) ==
    /\ ~FlagGivenWithValue(args[p], FLAG_INPUT_FILE)
    /\ isTTY[p]
    /\ Len(args[p]) > 0
    /\ \A i \in DOMAIN args[p] : ~LooksLikeFlag(args[p][i])
NoInputReported(p) ==
    Exited(p) /\ stdout[p] = <<ErrorPayload("No input provided", <<>>)>> /\ exitCode[p] # 0
SynthesizedFromWords(p) ==
    /\ Events(p, "readInputFile") = {} /\ Events(p, "readStdin") = {}
    /\ ~NoInputReported(p)

C8_WordsOnlyWithoutFlags ==
    \A p \in Procs :
        pc[p] \notin {"idle", "input"} =>
            /\ SynthesizedFromWords(p) <=> PlainWordsOnly(p)
            /\ SynthesizedFromWords(p) =>
                   /\ JSONparse(inputData[p]).ok
                   /\ JSONparse(inputData[p]).v =
                          Obj(<<[k |-> K_action, v |-> Str(ACTION_NEW)],
                                [k |-> K_prompt, v |-> Str(Join(args[p], <<" ">>))]>>)
            /\ ( /\ ~FlagGivenWithValue(args[p], FLAG_INPUT_FILE)
                 /\ isTTY[p]
                 /\ \E i \in DOMAIN args[p] : LooksLikeFlag(args[p][i]) ) => NoInputReported(p)

(***************************************************************************)
(* C9.  For a request that parsed to an object, the effective prompt comes *)
(* from exactly one source: the file named by --prompt-file when the flag  *)
(* is given with a path; else the file named by the request's promptFile   *)
(* when it names one (is non-empty); else the request's prompt, untouched. *)
(* A chosen file is the only prompt file read, its content replaces the    *)
(* prompt as a whole, and when it cannot be read the invocation ends with  *)
(* the prompt-file read error naming that path.                            *)
(***************************************************************************)
ParsedRequest(p) == JSONparse(inputData[p]).v
ChosenPromptFile(p) ==
    IF FlagGivenWithValue(args[p], FLAG_PROMPT_FILE)
    THEN <<ValueAfter(args[p], FLAG_PROMPT_FILE)>>
    ELSE IF Truthy(GetProp(ParsedRequest(p), K_promptFile))
         THEN <<GetProp(ParsedRequest(p), K_promptFile).s>>
         ELSE <<>>

C9_PromptPrecedence ==
    \A p \in Procs :
        ( /\ pc[p] \notin {"idle", "input", "parse", "promptFile"}
          /\ JSONparse(inputData[p]).ok
          /\ ParsedRequest(p).t = "object" ) =>
            IF ChosenPromptFile(p) = <<>>
            THEN Events(p, "readPromptFile") = {} /\ input[p] = ParsedRequest(p)
            ELSE /\ Cardinality(Events(p, "readPromptFile")) = 1
                 /\ \A i \in Events(p, "readPromptFile") :
                        /\ trace[p][i].arg = ChosenPromptFile(p)[1]
                        /\ IF FileContents(ChosenPromptFile(p)[1]) = {}
                           THEN /\ Failed(p)
                                /\ stdout[p] = <<ErrorPayload("Failed to read prompt file",
                                                              ChosenPromptFile(p)[1])>>
                           ELSE input[p] = SetProp(ParsedRequest(p), K_prompt,
                                                   Str(trace[p][i].data))

\* --prompt-file given while the request carries both a promptFile and a prompt
C9_Witness ==
    \E p \in Procs :
        /\ pc[p] = "action"
        /\ FlagGivenWithValue(args[p], FLAG_PROMPT_FILE)
        /\ Truthy(GetProp(ParsedRequest(p), K_promptFile))
        /\ GetProp(ParsedRequest(p), K_prompt) = Str(TXT_hi)
        /\ GetProp(input[p], K_prompt) = Str(TXT_file_prompt)

(***************************************************************************)
(* C10.  Whatever the session file holds that is not a record (missing,    *)
(* unreadable, not JSON, or JSON that is not an object), the invocation    *)
(* goes on as with an empty record: it opens a thread by startThread with  *)
(* the options an empty record gives, and no error is reported before the  *)
(* external call.                                                          *)
(***************************************************************************)
NotARecord(file) ==
    \/ ~file.exists
    \/ ~file.readable
    \/ ~JSONparse(file.text).ok
    \/ JSONparse(file.text).v.t # "object"

C10_AnySessionFileLoadsAsEmpty ==
    \A p \in Procs :
        (Events(p, "loadState") # {} /\ pc[p] # "open" /\ NotARecord(stateBefore[p])) =>
            /\ Cardinality(Events(p, "startThread")) = 1
            /\ Events(p, "resumeThread") = {}
            /\ thread[p].kind = "start" =>
                   thread[p].options = ThreadOptions(EffectiveWorkingDir(input[p], EmptyObject))
            /\ HasSaved(p) =>
                   stateFile = saveState(NewState(input[p], EmptyObject, thread[p].id, TRUE,
                                                  EffectiveWorkingDir(input[p], EmptyObject)))

(***************************************************************************)
(* C11.  The steps of an invocation happen in one order: input read,       *)
(* prompt-file read, action validation, prompt validation, validate-only   *)
(* exit, credential check, session load, thread open, run, save.  The      *)
(* credential is checked only for a request whose action and prompt are    *)
(* valid and without --validate; its error is reported before any session  *)
(* load and any startThread, resumeThread or run; a request with an        *)
(* invalid action reports that (even when the prompt is missing too), one  *)
(* with a missing prompt reports that, and neither reaches the credential. *)
(***************************************************************************)
Rank(op) ==
    CASE op \in {"readInputFile", "readStdin"} -> 1
      [] op = "readPromptFile" -> 2
      [] op = "checkApiKey" -> 3
      [] op = "loadState" -> 4
      [] op \in {"startThread", "resumeThread"} -> 5
      [] op = "run" -> 6
      [] op = "saveState" -> 7
      [] OTHER -> 8

RequestIsValidAction(p) ==
    GetProp(input[p], K_action) \in {Str(ACTION_NEW), Str(ACTION_CONTINUE)}
RequestHasPrompt(p) == Truthy(GetProp(input[p], K_prompt))
ReportedError(p, kind) ==
    Failed(p) /\ Len(stdout[p]) = 1 /\ IsErrorPayload(stdout[p][1])
              /\ stdout[p][1].error.kind = kind
CredentialError == "OPENAI_API_KEY environment variable not set"
AfterCredential == {"load", "open", "run", "save", "emit"}

C11_StepOrder ==
    \A p \in Procs :
        /\ \A i, j \in DOMAIN trace[p] :
               i < j => Rank(trace[p][i].op) < Rank(trace[p][j].op)
        /\ pc[p] \in {"prompt", "validateMode", "apiKey"} \cup AfterCredential =>
               RequestIsValidAction(p)
        /\ pc[p] \in {"validateMode", "apiKey"} \cup AfterCredential => RequestHasPrompt(p)
        /\ pc[p] \in {"apiKey"} \cup AfterCredential => ~ValidateGiven(args[p])
        /\ pc[p] \in AfterCredential => Truthy(apiKey[p])
        /\ Events(p, "checkApiKey") # {} =>
               RequestIsValidAction(p) /\ RequestHasPrompt(p) /\ ~ValidateGiven(args[p])
        /\ Events(p, "loadState") # {} => Events(p, "checkApiKey") # {} /\ Truthy(apiKey[p])
        /\ ReportedError(p, CredentialError) =>
               /\ RequestIsValidAction(p) /\ RequestHasPrompt(p)
               /\ ~Truthy(apiKey[p])
               /\ Ops(p) \cap {"loadState", "startThread", "resumeThread", "run",
                               "saveState"} = {}
        /\ ReportedError(p, "Invalid action") =>
               ~RequestIsValidAction(p) /\ Events(p, "checkApiKey") = {}
        /\ ReportedError(p, "Missing 'prompt' field in input") =>
               /\ RequestIsValidAction(p) /\ ~RequestHasPrompt(p)
               /\ Events(p, "checkApiKey") = {}

\* a valid request read through both files that ends with the credential's error
C11_Witness ==
    \E p \in Procs :
        /\ ReportedError(p, CredentialError)
        /\ Events(p, "readInputFile") # {} /\ Events(p, "readPromptFile") # {}
        /\ RequestIsValidAction(p) /\ RequestHasPrompt(p)

(***************************************************************************)
(* C12.  Once a thread is opened, the working directory in its options is  *)
(* the request's workingDirectory when the request has one (non-empty),    *)
(* otherwise the loaded record's; the record written afterwards carries    *)
(* the same directory.  When neither has one, the options have no          *)
(* workingDirectory property and the written record holds no directory.    *)
(***************************************************************************)
RequestDir(p) == GetProp(input[p], K_workingDirectory)
RecordDir(p) == GetProp(PriorRecord(p), K_workingDirectory)
ResolvedDir(p) ==
    IF Truthy(RequestDir(p)) THEN <<RequestDir(p)>>
    ELSE IF Truthy(RecordDir(p)) THEN <<RecordDir(p)>>
    ELSE <<>>
ThreadOpened(p) == thread[p].kind # "none"

C12_WorkingDirectoryResolution ==
    \A p \in Procs :
        ThreadOpened(p) =>
            /\ Cardinality(Events(p, "startThread") \cup Events(p, "resumeThread")) = 1
            /\ IF ResolvedDir(p) = <<>>
               THEN /\ KeyIndex(thread[p].options.props, K_workingDirectory) = 0
                    /\ HasSaved(p) => ~Truthy(GetProp(PersistedRecord, K_workingDirectory))
               ELSE /\ GetProp(thread[p].options, K_workingDirectory) = ResolvedDir(p)[1]
                    /\ HasSaved(p) =>
                           GetProp(PersistedRecord, K_workingDirectory) = ResolvedDir(p)[1]

\* a resumed thread whose request names a directory other than the record's
C12_Witness ==
    \E p \in Procs :
        /\ HasSaved(p) /\ thread[p].kind = "resume"
        /\ RequestDir(p) = Str(TXT_dir) /\ RecordDir(p) = Str(TXT_dir2)
        /\ GetProp(PersistedRecord, K_workingDirectory) = Str(TXT_dir)

(***************************************************************************)
(* C13.  Whenever the text obtained as input does not parse as JSON, the   *)
(* empty text included, the invocation ends with a non-zero status and one *)
(* "Invalid JSON input" payload whose preview is non-empty, is a prefix of *)
(* the text and has at most 200 characters; the session file is untouched. *)
(***************************************************************************)
ObtainedText(p) ==
    /\ pc[p] \notin {"idle", "input"}
    /\ ~ReportedError(p, "Failed to read input file")
    /\ ~ReportedError(p, "No input provided")
IsQuoted(d) == Len(d) >= 2 /\ d[1] = "\"" /\ d[Len(d)] = "\""
Unquoted(d) == SubSeq(d, 2, Len(d) - 1)

C13_ParseErrorShowsPreview ==
    \A p \in Procs :
        (ObtainedText(p) /\ pc[p] # "parse" /\ ~JSONparse(inputData[p]).ok) =>
            /\ ReportedError(p, "Invalid JSON input")
            /\ IsQuoted(stdout[p][1].error.detail)
            /\ Unquoted(stdout[p][1].error.detail) # <<>>
            /\ IsPrefix(Unquoted(stdout[p][1].error.detail), inputData[p])
            /\ Len(Unquoted(stdout[p][1].error.detail)) <= 200
            /\ stateFile = stateBefore[p]

(***************************************************************************)
(* C14.  With two invocations running at once on one session file, the     *)
(* file always holds exactly the record built by the invocation that saved *)
(* last, from what that invocation itself loaded and was asked: nothing of *)
(* the other invocation's record is merged in.  When both resumed a thread *)
(* after loading the same messageCount n and both saved, the file holds    *)
(* n + 1; when both saved, the persisted thread is the last saver's.       *)
(***************************************************************************)
OwnRecord(p) ==
    saveState(NewState(input[p], state[p], thread[p].id, isNewThread[p],
                       effectiveWorkingDir[p]))
LoadedCount(p) == GetProp(state[p], K_messageCount)
BothSaved == \A p \in Procs : HasSaved(p)

C14_LastSaveWins ==
    /\ lastWriter = 0 => \A p \in Procs : ~HasSaved(p)
    /\ lastWriter # 0 => HasSaved(lastWriter) /\ stateFile = OwnRecord(lastWriter)
    /\ BothSaved =>
           GetProp(PersistedRecord, K_threadId) = thread[lastWriter].id
    /\ ( /\ BothSaved
         /\ \A p \in Procs : thread[p].kind = "resume"
         /\ \A p, q \in Procs : LoadedCount(p) = LoadedCount(q) ) =>
           \A p \in Procs :
               GetProp(PersistedRecord, K_messageCount) = PlusOne(LoadedCount(p))

\* two successful continue invocations that both loaded count 1: one update lost
C14_Witness ==
    /\ \A p \in Procs : Succeeded(p) /\ thread[p].kind = "resume" /\ LoadedCount(p) = Num(1)
    /\ GetProp(PersistedRecord, K_messageCount) = Num(2)

\* a new racing with a continue, both successful: the record may be left
\* pointing at the new thread, and may be left pointing at the continued one
C14_NewThreadWins ==
    \E p, q \in Procs :
        /\ Succeeded(p) /\ Succeeded(q)
        /\ thread[p].kind = "start" /\ thread[q].kind = "resume"
        /\ thread[p].id # thread[q].id
        /\ GetProp(PersistedRecord, K_threadId) = thread[p].id

C14_ContinuedThreadWins ==
    \E p, q \in Procs :
        /\ Succeeded(p) /\ Succeeded(q)
        /\ thread[p].kind = "start" /\ thread[q].kind = "resume"
        /\ thread[p].id # thread[q].id
        /\ GetProp(PersistedRecord, K_threadId) = thread[q].id

(***************************************************************************)
(* C15.  Once the session file has held a non-empty workingDirectory, it   *)
(* holds a non-empty one after every step of every later invocation.  An   *)
(* invocation that found a directory persisted opens its thread, new or    *)
(* resumed, with a workingDirectory in the options; when its request omits *)
(* the directory or gives an empty one, the options and the record it      *)
(* writes carry the persisted directory.                                   *)
(***************************************************************************)
PersistedDir ==
    IF IsNullish(PersistedRecord) THEN Undefined
    ELSE GetProp(PersistedRecord, K_workingDirectory)
FoundDir(p) ==
    IF IsNullish(PriorRecord(p)) THEN Undefined
    ELSE GetProp(PriorRecord(p), K_workingDirectory)

InheritsDirectory ==
    \A p \in Procs :
        (ThreadOpened(p) /\ Truthy(FoundDir(p))) =>
            /\ Truthy(GetProp(thread[p].options, K_workingDirectory))
            /\ ~Truthy(RequestDir(p)) =>
                   /\ GetProp(thread[p].options, K_workingDirectory) = FoundDir(p)
                   /\ HasSaved(p) => PersistedDir = FoundDir(p)

PersistedThreadId ==
    IF IsNullish(PersistedRecord) THEN Undefined
    ELSE GetProp(PersistedRecord, K_threadId)
PrintedSuccess(p) == \E i \in DOMAIN stdout[p] : IsSuccessPayload(stdout[p][i])

C16_PersistedThreadIsLastSuccess ==
    \A p \in SeqProcs :
        /\ (pc[p] # "emit" /\ lastSuccess # Undefined) => PersistedThreadId = lastSuccess
        /\ PrintedSuccess(p) =>
               /\ stdout[p] = <<SuccessPayload(thread[p].id, ResponseText(result[p]))>>
               /\ lastSuccess = thread[p].id
               /\ PersistedThreadId = thread[p].id
               /\ \E i \in Events(p, "run"), j \in Events(p, "saveState") : i < j
               /\ \A i \in Events(p, "resumeThread") : Str(trace[p][i].arg) = thread[p].id

\* a new thread replacing a persisted one: payload and record name the new thread
C16_Witness ==
    \E p \in SeqProcs :
        /\ Succeeded(p) /\ thread[p].kind = "start"
        /\ PriorThreadId(p) = Str(THREAD_1)
        /\ stdout[p][1].threadId = Str(THREAD_2)
        /\ PersistedThreadId = Str(THREAD_2)

(***************************************************************************)
(* C17.  Starting without a session file, in sequential use: between       *)
(* invocations, and within one outside its save-to-emit window, the file   *)
(* is absent as long as no invocation has succeeded, and afterwards its    *)
(* messageCount is the number, at least 1, of successful invocations since *)
(* and including the latest one that started a new thread.  Failed and     *)
(* validate-only invocations leave the file as it was.                     *)
(***************************************************************************)
PersistedCount ==
    IF IsNullish(PersistedRecord) THEN Undefined
    ELSE GetProp(PersistedRecord, K_messageCount)

C17_CountIsSuccessesSinceNew ==
    \A p \in SeqProcs :
        /\ pc[p] # "emit" =>
               IF successesSinceNew = 0
               THEN stateFile = FileAbsent
               ELSE /\ PersistedCount = Num(successesSinceNew)
                    /\ successesSinceNew >= 1
        /\ (Exited(p) /\ ~PrintedSuccess(p)) => stateFile = stateBefore[p]

\* new, continue, then an invocation that fails after its run: the count stays 2
C17_Witness ==
    \E p \in SeqProcs :
        /\ Failed(p) /\ Events(p, "run") # {}
        /\ successesSinceNew = 2
        /\ PersistedCount = Num(2)

=============================================================================
